---- MODULE Spec2Model ----
(***************************************************************************)
(* Dev dependency provisioning and readiness engine of sw_cli              *)
(* (sw_cli/commands/dev_requirements.py): the requirement dispatcher, the  *)
(* five requirement handlers, the resource provisioners and the redis      *)
(* secret derivation, together with the backing services they talk to.     *)
(*                                                                         *)
(* Python strings on which the code performs a substring test, an exact    *)
(* dictionary lookup or a character replacement are sequences: argument    *)
(* keys and resource names are sequences of one-character strings, stderr  *)
(* texts and log lines are sequences of words.                             *)
(***************************************************************************)
EXTENDS Integers, Sequences, FiniteSets, TLC

----------------------------------------------------------------------------
(* Bounds of the model *)

\* longest requirement list handed to dispatch_all
MaxReqs == 2

\* most lines a dependency writes on its watched stream
MaxLines == 2

\* how many times dispatch_all is invoked on the same list
MaxRuns == 2

----------------------------------------------------------------------------
(* Strings *)

\* Python `needle in haystack` for two str / bytes values: needle occurs as
\* a contiguous run of haystack (the empty needle occurs everywhere)
IsSubstr(needle, hay) ==
    \E i \in 0..(Len(hay) - Len(needle)) :
        \A j \in 1..Len(needle) : hay[i + j] = needle[j]

\* Python `key in container`: substring test when the container is a str,
\* element test when it is a tuple
PyIn(key, container) ==
    IF container.type = "str"
    THEN IsSubstr(key, container.val)
    ELSE \E i \in 1..Len(container.val) : container.val[i] = key

\* only the first dash is replaced
ReplaceDash_first_only(s) ==
    [i \in 1..Len(s) |->
        IF s[i] = "-" /\ (\A j \in 1..(i - 1) : s[j] # "-") THEN "_" ELSE s[i]]

\* str.replace('-', '_')
ReplaceDash(s) == [i \in 1..Len(s) |-> IF s[i] = "-" THEN "_" ELSE s[i]]

\* argument keys, as Python str values
K_kind == <<"k", "i", "n", "d">>
K_name == <<"n", "a", "m", "e">>
K_nam == <<"n", "a", "m">>
K_topic == <<"t", "o", "p", "i", "c">>
K_subscription == <<"s", "u", "b", "s", "c", "r", "i", "p", "t", "i", "o", "n">>
K_keyspace == <<"k", "e", "y", "s", "p", "a", "c", "e">>
K_key == <<"k", "e", "y">>
K_bogus == <<"b", "o", "g", "u", "s">>

\* a Python str literal and a Python tuple literal
PyStr(s) == [type |-> "str", val |-> s]
PyTuple(t) == [type |-> "tuple", val |-> t]

----------------------------------------------------------------------------
(* The handler classes *)

Kinds == {"postgres", "redis", "elastic", "pubsub", "cassandra"}

\* RequirementsDispatcher.commands: kind -> handler class
commands ==
    [k \in Kinds |->
        CASE k = "postgres" -> "Postgres"
          [] k = "redis" -> "Redis"
          [] k = "elastic" -> "Elasticsearch"
          [] k = "pubsub" -> "PubSubEmulator"
          [] k = "cassandra" -> "Cassandra"]

\* Elasticsearch takes a 'name'
valid_arguments_elastic_named(k) ==
    CASE k = "postgres" -> PyStr(K_name)
      [] k = "redis" -> PyTuple(<<K_name>>)
      [] k = "elastic" -> PyTuple(<<K_name>>)
      [] k = "pubsub" -> PyTuple(<<K_topic, K_subscription>>)
      [] k = "cassandra" -> PyStr(K_keyspace)

\* the class attribute valid_arguments of each handler, as written:
\* ('name') and ('keyspace') are parenthesised str values, ('name', ) and
\* ('topic', 'subscription') and () are tuples
valid_arguments(k) ==
    CASE k = "postgres" -> PyStr(K_name)
      [] k = "redis" -> PyTuple(<<K_name>>)
      [] k = "elastic" -> PyTuple(<<>>)
      [] k = "pubsub" -> PyTuple(<<K_topic, K_subscription>>)
      [] k = "cassandra" -> PyStr(K_keyspace)

\* the dependency class each handler instantiates, by its name attribute
DepOf(k) ==
    CASE k = "postgres" -> "dev-postgres"
      [] k = "redis" -> "dev-redis"
      [] k = "elastic" -> "dev-elasticsearch"
      [] k = "pubsub" -> "dev-pubsub"
      [] k = "cassandra" -> "dev-cassandra"

Deps == {DepOf(k) : k \in Kinds}

\* the started_log attribute of each dependency class
started_log(d) ==
    CASE d = "dev-postgres" -> <<"PostgreSQL init process complete; ready for start up.">>
      [] d = "dev-elasticsearch" -> <<"] started">>
      [] d = "dev-pubsub" -> <<"[pubsub] INFO: Server started, listening on">>
      [] d = "dev-redis" -> <<"The server is now ready to accept connections">>
      [] d = "dev-cassandra" -> <<"Created default superuser role 'cassandra'">>

----------------------------------------------------------------------------
(* Inputs: requirement entries and the context *)

\* resource names, as Python str values; Empty is the falsy ''
X == <<"x">>
AB == <<"a", "-", "b">>
Empty == <<>>

\* context['KUBE_SERVICE_NAME'] of the invoking command
ServiceName == <<"s", "-", "v", "-", "c">>

\* a requirement entry is a dict: a function from keys to values
Entry(kind, args) == (K_kind :> <<kind>>) @@ args
NoArgs == [k \in {} |-> Empty]

\* the entries requirement lists are drawn from: the DEV_REQUIREMENTS of a
\* project name one or two kinds of dependency, now and then misspelt
PostgresProject ==
    { (K_name :> X),                                   \* no 'kind' at all
      Entry("mysql", NoArgs),                          \* unsupported kind
      Entry("postgres", NoArgs),
      Entry("postgres", K_name :> X),
      Entry("postgres", K_name :> Empty),
      Entry("postgres", K_nam :> X),
      Entry("postgres", K_bogus :> X) }

RedisProject ==
    { Entry("redis", NoArgs),
      Entry("redis", K_name :> X),
      Entry("redis", K_name :> AB),
      Entry("redis", K_nam :> X),
      Entry("elastic", NoArgs),
      Entry("elastic", K_name :> X) }

PubSubProject ==
    { Entry("mysql", NoArgs),
      Entry("pubsub", K_topic :> X),
      Entry("pubsub", (K_topic :> X) @@ (K_subscription :> X)),
      Entry("pubsub", K_subscription :> AB),
      Entry("pubsub", (K_topic :> X) @@ (K_bogus :> X)) }

CassandraProject ==
    { (K_name :> X),
      Entry("cassandra", NoArgs),
      Entry("cassandra", K_keyspace :> X),
      Entry("cassandra", K_key :> X),
      Entry("elastic", NoArgs) }

EntryPools == {PostgresProject, RedisProject, PubSubProject, CassandraProject}

\* requirement lists of at most n entries
ReqLists(n) == UNION { [1..m -> pool] : m \in 0..n, pool \in EntryPools }

\* the two dispatchers that may run on one machine
Procs == {1, 2}

----------------------------------------------------------------------------
(* The backing services *)

\* the administrative commands and the kind of resource each creates
Ops == {"createdb", "cqlsh", "pubsub_add_topic", "pubsub_add_subscription"}

ResourceType(op) ==
    CASE op = "createdb" -> "database"
      [] op = "cqlsh" -> "keyspace"
      [] op = "pubsub_add_topic" -> "topic"
      [] op = "pubsub_add_subscription" -> "subscription"

\* the markers with the two pubsub ones exchanged
already_exists_marker_swapped(op) ==
    CASE op = "createdb" -> <<"already", "exists">>
      [] op = "cqlsh" -> <<"already", "exists">>
      [] op = "pubsub_add_topic" -> <<"Subscription", "already", "exists">>
      [] op = "pubsub_add_subscription" -> <<"Topic", "already", "exists">>

\* the markers of the two database kinds spelt with a capital
already_exists_marker_capital(op) ==
    CASE op = "createdb" -> <<"Already", "exists">>
      [] op = "cqlsh" -> <<"Already", "exists">>
      [] op = "pubsub_add_topic" -> <<"Topic", "already", "exists">>
      [] op = "pubsub_add_subscription" -> <<"Subscription", "already", "exists">>

\* the bytes each ensure_*_present looks for in e.stderr
already_exists_marker(op) ==
    CASE op = "createdb" -> <<"already", "exists">>
      [] op = "cqlsh" -> <<"already", "exists">>
      [] op = "pubsub_add_topic" -> <<"Topic", "already", "exists">>
      [] op = "pubsub_add_subscription" -> <<"Subscription", "already", "exists">>

\* what a service writes on stderr when asked to create what it already has
ExistsStderr(op) ==
    CASE op = "createdb" -> <<"ERROR:", "database", "already", "exists">>
      [] op = "cqlsh" -> <<"AlreadyExists:", "Keyspace", "already", "exists">>
      [] op = "pubsub_add_topic" -> <<"409", "Topic", "already", "exists">>
      [] op = "pubsub_add_subscription" -> <<"409", "Subscription", "already", "exists">>

\* what a command may write on stderr when it fails for another reason
OtherStderr == { <<"ERROR:", "permission", "denied">> }

\* the lines a dependency may write on its watched stream
Lines(d) == { <<"starting">>, <<"ts">> \o started_log(d) \o <<"eol">> }

Resource(op, nm) == [type |-> ResourceType(op), name |-> nm]

\* every entry gets database 0
RedisUrl_zero(redis_host, count) ==
    [scheme |-> "redis", host |-> redis_host, port |-> 6379, db |-> 0]

\* the index counted from one
RedisUrl_from_one(redis_host, count) ==
    [scheme |-> "redis", host |-> redis_host, port |-> 6379, db |-> count + 1]

\* value of a redis-urls entry: 'redis://{}:6379/{}'.format(redis_host, count)
RedisUrl(redis_host, count) == [scheme |-> "redis", host |-> redis_host, port |-> 6379, db |-> count]

----------------------------------------------------------------------------
(* State *)

VARIABLES
    devel,      \* the devel command that is running, if one is
    reqs,       \* reqs[p]: the requirement list handed to dispatch_all
    context,    \* the ambient Context mapping
    pc,         \* pc[p]: where dispatcher p stands
    idx,        \* idx[p]: position of dispatch_all's loop in reqs[p]
    run,        \* run[p]: how many times dispatch_all was invoked
    scanPos,    \* scanPos[p]: lines of the watched stream read so far
    snap,       \* snap[p]: the redis_urls mapping read by reset_global_secrets
    trace,      \* trace[p]: what dispatcher p did and logged, in order
    exists,     \* exists[d]: a process named d exists
    out,        \* out[d]: lines the process wrote on the watched stream
    closed,     \* closed[d]: the process closed the watched stream
    starts,     \* starts[d]: how many start actions were invoked for d
    resources,  \* the databases, keyspaces, topics, subscriptions that exist
    secrets     \* the 'redis-urls' bundle: key -> value

dispVars == <<reqs, context, pc, idx, run, scanPos, snap, trace>>
procVars == <<exists, out, closed, starts>>
storeVars == <<resources, secrets>>
vars == <<devel, reqs, context, pc, idx, run, scanPos, snap, trace,
          exists, out, closed, starts, resources, secrets>>

EmptyMap == [k \in {} |-> 0]

\* no devel command is running: dispatch_all is called on its own
NoCommand ==
    [name |-> "none", entry |-> "none", default |-> FALSE, script |-> FALSE,
     development |-> TRUE, kubernetes_dir |-> FALSE, overrides_dir |-> FALSE,
     storage |-> FALSE, at |-> "none", log |-> <<>>]

\* one thing dispatcher p did or logged while at entry idx[p] of run run[p]
Ev(p, e, o, a) == [ev |-> e, run |-> run[p], idx |-> idx[p], op |-> o, arg |-> a]

----------------------------------------------------------------------------
(* Pure parts of the dispatcher and the handlers *)

\* the entry dispatch_all's loop of dispatcher p is at
CurEntry(p) == reqs[p][idx[p]]

\* dispatch: arguments = requirement.copy(); kind = arguments.pop('kind')
PopKind(requirement) == [k \in DOMAIN requirement \ {K_kind} |-> requirement[k]]
KindOf(requirement) == requirement[K_kind][1]

\* Requirement.__call__: all(key in self.valid_arguments for key in arguments.keys())
ArgumentsValid(kind, arguments) ==
    \A key \in DOMAIN arguments : PyIn(key, valid_arguments(kind))

\* the argument is not looked at
GetOrServiceName_always_default(arguments, key, ctx) ==
    ctx["KUBE_SERVICE_NAME"]

\* arguments.get(key) or self.context['KUBE_SERVICE_NAME']
GetOrServiceName(arguments, key, ctx) ==
    IF key \in DOMAIN arguments /\ arguments[key] # Empty
    THEN arguments[key]
    ELSE ctx["KUBE_SERVICE_NAME"]

\* the key whose value names the resource of each kind
NameKey(kind) ==
    CASE kind = "postgres" -> K_name
      [] kind = "redis" -> K_name
      [] kind = "pubsub" -> K_topic
      [] kind = "cassandra" -> K_keyspace

\* database_name / topic_name / secret_key / keyspace_name in the run methods
ResourceName(kind, arguments, ctx) == GetOrServiceName(arguments, NameKey(kind), ctx)

\* CassandraDependency.clean_keyspace_name
clean_keyspace_name(original) == ReplaceDash(original)

\* kind, arguments and dependency of the entry dispatcher p is handling
CurKind(p) == KindOf(CurEntry(p))
CurArgs(p) == PopKind(CurEntry(p))
CurDep(p) == DepOf(CurKind(p))
CurName(p) == ResourceName(CurKind(p), CurArgs(p), context)

----------------------------------------------------------------------------
(* Initial states *)

NoDispatcher ==
    /\ pc = [p \in Procs |-> IF p = 1 THEN "loop" ELSE "idle"]
    /\ idx = [p \in Procs |-> 1]
    /\ run = [p \in Procs |-> IF p = 1 THEN 1 ELSE 0]
    /\ scanPos = [p \in Procs |-> 0]
    /\ snap = [p \in Procs |-> EmptyMap]
    /\ trace = [p \in Procs |-> <<>>]

FreshMachine ==
    /\ exists = [d \in Deps |-> FALSE]
    /\ out = [d \in Deps |-> <<>>]
    /\ closed = [d \in Deps |-> FALSE]
    /\ starts = [d \in Deps |-> 0]
    /\ resources = {}
    /\ secrets = EmptyMap

\* one dispatcher, about to run dispatch_all on a list read from the
\* project configuration, on a machine where nothing was started yet
Init ==
    /\ \E l \in ReqLists(MaxReqs) : reqs = [p \in Procs |-> IF p = 1 THEN l ELSE <<>>]
    /\ context = [KUBE_SERVICE_NAME |-> ServiceName]
    /\ devel = NoCommand
    /\ NoDispatcher
    /\ FreshMachine

----------------------------------------------------------------------------
(* Steps of a dispatcher *)

Log(p, evs) == trace' = [trace EXCEPT ![p] = @ \o evs]

\* the loop passes over the entry that follows a satisfied one
Satisfied_skipping_next(p, evs) ==
    /\ Log(p, evs \o <<Ev(p, "satisfied", "", Empty)>>)
    /\ idx' = [idx EXCEPT ![p] = @ + 2]
    /\ pc' = [pc EXCEPT ![p] = "loop"]

\* dispatch returns: 'Requirement of kind ... satisfied', next loop iteration
Satisfied(p, evs) ==
    /\ Log(p, evs \o <<Ev(p, "satisfied", "", Empty)>>)
    /\ idx' = [idx EXCEPT ![p] = @ + 1]
    /\ pc' = [pc EXCEPT ![p] = "loop"]

\* a skipped entry ends dispatch_all with an exception
Skip_raising(p, evs) ==
    /\ Log(p, evs)
    /\ pc' = [pc EXCEPT ![p] = "raised"]
    /\ UNCHANGED idx

\* an entry is skipped with a warning: dispatch_all goes on with the next one
Skip(p, evs) ==
    /\ Log(p, evs)
    /\ idx' = [idx EXCEPT ![p] = @ + 1]
    /\ UNCHANGED pc

\* the exception is swallowed on the way: dispatch_all goes on
Raise_swallowed(p, evs) ==
    /\ Log(p, evs)
    /\ idx' = [idx EXCEPT ![p] = @ + 1]
    /\ pc' = [pc EXCEPT ![p] = "loop"]

\* an exception leaves the handler, dispatch and dispatch_all
Raise(p, evs) ==
    /\ Log(p, evs)
    /\ pc' = [pc EXCEPT ![p] = "raised"]
    /\ UNCHANGED idx

\* 'kind' is popped from the entry itself, not from a copy
Dispatch_popping_in_place(p) ==
    /\ pc[p] = "loop"
    /\ UNCHANGED <<devel, context, run, scanPos, snap, procVars, storeVars>>
    /\ IF idx[p] > Len(reqs[p])
       THEN /\ pc' = [pc EXCEPT ![p] = "finished"]
            /\ UNCHANGED <<reqs, idx, trace>>
       ELSE LET requirement == CurEntry(p) IN
            IF K_kind \notin DOMAIN requirement
            THEN Skip(p, <<Ev(p, "warn_no_kind", "", Empty)>>) /\ UNCHANGED reqs
            ELSE LET kind == KindOf(requirement)
                     arguments == PopKind(requirement)
                     checking == Ev(p, "checking", "", Empty)
                 IN  /\ reqs' = [reqs EXCEPT ![p][idx[p]] = arguments]
                     /\ IF kind \notin DOMAIN commands
                        THEN Skip(p, <<checking, Ev(p, "warn_unsupported", "", Empty)>>)
                        ELSE IF ArgumentsValid(kind, arguments)
                             THEN /\ Log(p, <<checking, Ev(p, "run", commands[kind], Empty)>>)
                                  /\ pc' = [pc EXCEPT ![p] = "check"]
                                  /\ UNCHANGED idx
                             ELSE Satisfied(p, <<checking, Ev(p, "warn_invalid", commands[kind], Empty)>>)

\* the run methods provision first and ensure the dependency afterwards
Dispatch_provisioning_first(p) ==
    /\ pc[p] = "loop"
    /\ UNCHANGED <<devel, reqs, context, run, scanPos, snap, procVars, storeVars>>
    /\ IF idx[p] > Len(reqs[p])
       THEN /\ pc' = [pc EXCEPT ![p] = "finished"]
            /\ UNCHANGED <<idx, trace>>
       ELSE LET requirement == CurEntry(p) IN
            IF K_kind \notin DOMAIN requirement
            THEN Skip(p, <<Ev(p, "warn_no_kind", "", Empty)>>)
            ELSE LET kind == KindOf(requirement)
                     arguments == PopKind(requirement)
                     checking == Ev(p, "checking", "", Empty)
                 IN  IF kind \notin DOMAIN commands
                     THEN Skip(p, <<checking, Ev(p, "warn_unsupported", "", Empty)>>)
                     ELSE IF ArgumentsValid(kind, arguments)
                          THEN /\ Log(p, <<checking, Ev(p, "run", commands[kind], Empty)>>)
                               /\ pc' = [pc EXCEPT ![p] =
                                            CASE kind = "redis" -> "secrets"
                                              [] kind = "elastic" -> "check"
                                              [] OTHER -> "provision"]
                               /\ UNCHANGED idx
                          ELSE Satisfied(p, <<checking, Ev(p, "warn_invalid", commands[kind], Empty)>>)

\* dispatch_all's loop and dispatch, up to the handler's run method
Dispatch(p) ==
    /\ pc[p] = "loop"
    /\ UNCHANGED <<devel, reqs, context, run, scanPos, snap, procVars, storeVars>>
    /\ IF idx[p] > Len(reqs[p])
       THEN /\ pc' = [pc EXCEPT ![p] = "finished"]
            /\ UNCHANGED <<idx, trace>>
       ELSE LET requirement == CurEntry(p) IN
            IF K_kind \notin DOMAIN requirement
            THEN Skip(p, <<Ev(p, "warn_no_kind", "", Empty)>>)
            ELSE LET kind == KindOf(requirement)
                     arguments == PopKind(requirement)
                     checking == Ev(p, "checking", "", Empty)
                 IN  IF kind \notin DOMAIN commands
                     THEN Skip(p, <<checking, Ev(p, "warn_unsupported", "", Empty)>>)
                     ELSE IF ArgumentsValid(kind, arguments)
                          THEN /\ Log(p, <<checking, Ev(p, "run", commands[kind], Empty)>>)
                               /\ pc' = [pc EXCEPT ![p] = "check"]
                               /\ UNCHANGED idx
                          ELSE Satisfied(p, <<checking, Ev(p, "warn_invalid", commands[kind], Empty)>>)


\* what the handler's run method does once ensure_running has returned
AfterEnsure(p, evs) ==
    LET kind == CurKind(p) IN
    IF kind = "elastic"
    THEN Satisfied(p, evs)
    ELSE /\ Log(p, evs)
         /\ pc' = [pc EXCEPT ![p] = IF kind = "redis" THEN "secrets" ELSE "provision"]
         /\ UNCHANGED idx

\* the start action is taken whether or not the process exists
EnsureCheck_restarting(p) ==
    /\ pc[p] = "check"
    /\ UNCHANGED <<devel, reqs, context, run, scanPos, snap, procVars, storeVars>>
    /\ Log(p, <<Ev(p, IF exists[CurDep(p)] THEN "present" ELSE "absent", CurDep(p), Empty)>>)
    /\ pc' = [pc EXCEPT ![p] = "start"]
    /\ UNCHANGED idx

\* a process found present is removed, to be started afresh
EnsureCheck_recreating(p) ==
    /\ pc[p] = "check"
    /\ exists' = [exists EXCEPT ![CurDep(p)] = FALSE]
    /\ UNCHANGED <<devel, reqs, context, run, scanPos, snap, out, closed, starts, storeVars>>
    /\ Log(p, <<Ev(p, IF exists[CurDep(p)] THEN "present" ELSE "absent", CurDep(p), Empty)>>)
    /\ pc' = [pc EXCEPT ![p] = "start"]
    /\ UNCHANGED idx

\* ensure_running, first part: is there a process with the dependency's name?
\* If there is, return at once; if not, go on to start it.
EnsureCheck(p) ==
    /\ pc[p] = "check"
    /\ UNCHANGED <<devel, reqs, context, run, scanPos, snap, procVars, storeVars>>
    /\ IF exists[CurDep(p)]
       THEN AfterEnsure(p, <<Ev(p, "present", CurDep(p), Empty)>>)
       ELSE /\ Log(p, <<Ev(p, "absent", CurDep(p), Empty)>>)
            /\ pc' = [pc EXCEPT ![p] = "start"]
            /\ UNCHANGED idx

\* the existence is checked again right before the start action
EnsureStart_rechecking(p) ==
    /\ pc[p] = "start"
    /\ IF exists[CurDep(p)]
       THEN /\ UNCHANGED <<devel, reqs, context, run, scanPos, snap, procVars, storeVars>>
            /\ AfterEnsure(p, <<Ev(p, "present", CurDep(p), Empty)>>)
       ELSE /\ exists' = [exists EXCEPT ![CurDep(p)] = TRUE]
            /\ starts' = [starts EXCEPT ![CurDep(p)] = @ + 1]
            /\ scanPos' = [scanPos EXCEPT ![p] = 0]
            /\ Log(p, <<Ev(p, "start", CurDep(p), Empty)>>)
            /\ pc' = [pc EXCEPT ![p] = "wait"]
            /\ UNCHANGED <<devel, reqs, context, idx, run, snap, out, closed, storeVars>>

\* ensure_running, second part: the start action, then open the watched stream
EnsureStart(p) ==
    /\ pc[p] = "start"
    /\ exists' = [exists EXCEPT ![CurDep(p)] = TRUE]
    /\ starts' = [starts EXCEPT ![CurDep(p)] = @ + 1]
    /\ scanPos' = [scanPos EXCEPT ![p] = 0]
    /\ Log(p, <<Ev(p, "start", CurDep(p), Empty)>>)
    /\ pc' = [pc EXCEPT ![p] = "wait"]
    /\ UNCHANGED <<devel, reqs, context, idx, run, snap, out, closed, storeVars>>

\* the wait gives up at the first line without the marker
EnsureWait_impatient(p) ==
    LET d == CurDep(p) IN
    /\ pc[p] = "wait"
    /\ scanPos[p] < Len(out[d])
    /\ scanPos' = [scanPos EXCEPT ![p] = @ + 1]
    /\ UNCHANGED <<devel, reqs, context, run, snap, procVars, storeVars>>
    /\ AfterEnsure(p, <<Ev(p, "ready", d, out[d][scanPos[p] + 1])>>)

\* the end of the stream before the marker is an error
EnsureWait_raising_at_end(p) ==
    LET d == CurDep(p) IN
    /\ pc[p] = "wait"
    /\ UNCHANGED <<devel, reqs, context, run, snap, procVars, storeVars>>
    /\ IF scanPos[p] < Len(out[d])
       THEN LET line == out[d][scanPos[p] + 1] IN
            /\ scanPos' = [scanPos EXCEPT ![p] = @ + 1]
            /\ IF IsSubstr(started_log(d), line)
               THEN AfterEnsure(p, <<Ev(p, "ready", d, line)>>)
               ELSE /\ Log(p, <<Ev(p, "line", d, line)>>)
                    /\ UNCHANGED <<pc, idx>>
       ELSE /\ closed[d]
            /\ UNCHANGED scanPos
            /\ Raise(p, <<Ev(p, "eof", d, Empty), Ev(p, "raise", d, Empty)>>)

\* ensure_running, third part: read the next line of the watched stream;
\* return when it contains started_log, or when the stream has ended
EnsureWait(p) ==
    LET d == CurDep(p) IN
    /\ pc[p] = "wait"
    /\ UNCHANGED <<devel, reqs, context, run, snap, procVars, storeVars>>
    /\ IF scanPos[p] < Len(out[d])
       THEN LET line == out[d][scanPos[p] + 1] IN
            /\ scanPos' = [scanPos EXCEPT ![p] = @ + 1]
            /\ IF IsSubstr(started_log(d), line)
               THEN AfterEnsure(p, <<Ev(p, "ready", d, line)>>)
               ELSE /\ Log(p, <<Ev(p, "line", d, line)>>)
                    /\ UNCHANGED <<pc, idx>>
       ELSE /\ closed[d]
            /\ UNCHANGED scanPos
            /\ AfterEnsure(p, <<Ev(p, "eof", d, Empty)>>)

\* a command that fails for another reason is run again
RunCommand_retrying(p, op, nm, before, after, nextpc) ==
    LET r == Resource(op, nm)
        cmd == before \o <<Ev(p, "cmd", op, nm)>>
        Return(evs) == IF nextpc = "loop"
                       THEN Satisfied(p, evs \o after)
                       ELSE /\ Log(p, evs \o after)
                            /\ pc' = [pc EXCEPT ![p] = nextpc]
                            /\ UNCHANGED idx
    IN  \/ /\ r \notin resources
           /\ resources' = resources \cup {r}
           /\ Return(cmd \o <<Ev(p, "created", op, nm)>>)
        \/ \E stderr \in (IF r \in resources THEN {ExistsStderr(op)} ELSE {}) \cup OtherStderr :
              /\ UNCHANGED resources
              /\ IF IsSubstr(already_exists_marker(op), stderr)
                 THEN Return(cmd \o <<Ev(p, "failed", op, stderr), Ev(p, "exists", op, nm)>>)
                 ELSE /\ Len(trace[p]) < 12
                      /\ Log(p, cmd \o <<Ev(p, "failed", op, stderr)>>)
                      /\ UNCHANGED <<pc, idx>>

\* self.run_command(...) inside try/except sh.ErrorReturnCode of an
\* ensure_*_present method: the command creates the resource, or fails and
\* the method looks for its marker in e.stderr
RunCommand(p, op, nm, before, after, nextpc) ==
    LET r == Resource(op, nm)
        cmd == before \o <<Ev(p, "cmd", op, nm)>>
        Return(evs) == IF nextpc = "loop"
                       THEN Satisfied(p, evs \o after)
                       ELSE /\ Log(p, evs \o after)
                            /\ pc' = [pc EXCEPT ![p] = nextpc]
                            /\ UNCHANGED idx
    IN  \/ /\ r \notin resources
           /\ resources' = resources \cup {r}
           /\ Return(cmd \o <<Ev(p, "created", op, nm)>>)
        \/ \E stderr \in (IF r \in resources THEN {ExistsStderr(op)} ELSE {}) \cup OtherStderr :
              /\ UNCHANGED resources
              /\ IF IsSubstr(already_exists_marker(op), stderr)
                 THEN Return(cmd \o <<Ev(p, "failed", op, stderr), Ev(p, "exists", op, nm)>>)
                 ELSE Raise(p, cmd \o <<Ev(p, "failed", op, stderr), Ev(p, "raise", op, stderr)>>)

\* PostgresDependency.ensure_database_present,
\* CassandraDependency.ensure_database_present,
\* PubSubDependency.ensure_topic_present and what run does next
Provision(p) ==
    LET kind == CurKind(p)
        cleaned == clean_keyspace_name(CurName(p))
    IN
    /\ pc[p] = "provision"
    /\ UNCHANGED <<devel, reqs, context, run, scanPos, snap, procVars, secrets>>
    /\ CASE kind = "postgres" ->
              RunCommand(p, "createdb", CurName(p), <<>>, <<>>, "loop")
         [] kind = "cassandra" ->
              RunCommand(p, "cqlsh", cleaned,
                         IF cleaned # CurName(p)
                         THEN <<Ev(p, "warn_dashes", "cqlsh", cleaned)>> ELSE <<>>,
                         <<>>, "loop")
         [] kind = "pubsub" ->
              IF K_subscription \in DOMAIN CurArgs(p)
              THEN RunCommand(p, "pubsub_add_topic", CurName(p), <<>>, <<>>, "subscription")
              ELSE RunCommand(p, "pubsub_add_topic", CurName(p), <<>>,
                              <<Ev(p, "no_subscription", "", Empty)>>, "loop")

\* the subscription is made on the topic named after the service
Subscription_default_topic(p) ==
    /\ pc[p] = "subscription"
    /\ UNCHANGED <<devel, reqs, context, run, scanPos, snap, procVars, secrets>>
    /\ RunCommand(p, "pubsub_add_subscription", CurArgs(p)[K_subscription],
                  <<Ev(p, "on_topic", "pubsub_add_subscription", context["KUBE_SERVICE_NAME"])>>,
                  <<>>, "loop")

\* PubSubDependency.ensure_subscription_present(topic_name, subscription_name):
\* the command gets the topic name and the subscription name
Subscription(p) ==
    /\ pc[p] = "subscription"
    /\ UNCHANGED <<devel, reqs, context, run, scanPos, snap, procVars, secrets>>
    /\ RunCommand(p, "pubsub_add_subscription", CurArgs(p)[K_subscription],
                  <<Ev(p, "on_topic", "pubsub_add_subscription", CurName(p))>>,
                  <<>>, "loop")

\* the secrets are installed again when the key is in the mapping
SecretsRead_reinstalling(p) ==
    /\ pc[p] = "secrets"
    /\ snap' = [snap EXCEPT ![p] = secrets]
    /\ UNCHANGED <<devel, reqs, context, run, scanPos, procVars, storeVars>>
    /\ IF CurName(p) \in DOMAIN secrets
       THEN Satisfied(p, <<Ev(p, "read", "redis-urls", CurName(p)),
                           Ev(p, "install", "global-secrets", Empty)>>)
       ELSE /\ Log(p, <<Ev(p, "read", "redis-urls", CurName(p))>>)
            /\ pc' = [pc EXCEPT ![p] = "write"]
            /\ UNCHANGED idx

\* the entry is added whether or not the key is in the mapping
SecretsRead_always_writes(p) ==
    /\ pc[p] = "secrets"
    /\ snap' = [snap EXCEPT ![p] = secrets]
    /\ UNCHANGED <<devel, reqs, context, run, scanPos, procVars, storeVars>>
    /\ Log(p, <<Ev(p, "read", "redis-urls", CurName(p))>>)
    /\ pc' = [pc EXCEPT ![p] = "write"]
    /\ UNCHANGED idx

\* Redis.reset_global_secrets, up to the test `secret_key not in redis_urls`
SecretsRead(p) ==
    /\ pc[p] = "secrets"
    /\ snap' = [snap EXCEPT ![p] = secrets]
    /\ UNCHANGED <<devel, reqs, context, run, scanPos, procVars, storeVars>>
    /\ IF CurName(p) \in DOMAIN secrets
       THEN Satisfied(p, <<Ev(p, "read", "redis-urls", CurName(p))>>)
       ELSE /\ Log(p, <<Ev(p, "read", "redis-urls", CurName(p))>>)
            /\ pc' = [pc EXCEPT ![p] = "write"]
            /\ UNCHANGED idx

\* the entry gets the database after the highest one in the mapping
SecretsWrite_above_highest(p) ==
    LET used == {snap[p][k].db : k \in DOMAIN snap[p]}
        count == IF used = {} THEN 0 ELSE 1 + CHOOSE n \in used : \A m \in used : m <= n
        value == RedisUrl(CurDep(p), count)
    IN
    /\ pc[p] = "write"
    /\ secrets' = [k \in DOMAIN secrets \cup {CurName(p)} |->
                      IF k = CurName(p) THEN value ELSE secrets[k]]
    /\ UNCHANGED <<devel, reqs, context, run, scanPos, snap, procVars, resources>>
    /\ Satisfied(p, <<Ev(p, "write", "redis-urls", CurName(p)),
                      Ev(p, "install", "global-secrets", Empty)>>)

\* the entries are counted when the entry is written, not when the mapping
\* was read
SecretsWrite_recounting(p) ==
    LET count == Cardinality(DOMAIN secrets)
        value == RedisUrl(CurDep(p), count)
    IN
    /\ pc[p] = "write"
    /\ secrets' = [k \in DOMAIN secrets \cup {CurName(p)} |->
                      IF k = CurName(p) THEN value ELSE secrets[k]]
    /\ UNCHANGED <<devel, reqs, context, run, scanPos, snap, procVars, resources>>
    /\ Satisfied(p, <<Ev(p, "write", "redis-urls", CurName(p)),
                      Ev(p, "install", "global-secrets", Empty)>>)

\* Redis.reset_global_secrets, the branch that adds the entry and installs
SecretsWrite(p) ==
    LET count == Cardinality(DOMAIN snap[p])
        value == RedisUrl(CurDep(p), count)
    IN
    /\ pc[p] = "write"
    /\ secrets' = [k \in DOMAIN secrets \cup {CurName(p)} |->
                      IF k = CurName(p) THEN value ELSE secrets[k]]
    /\ UNCHANGED <<devel, reqs, context, run, scanPos, snap, procVars, resources>>
    /\ Satisfied(p, <<Ev(p, "write", "redis-urls", CurName(p)),
                      Ev(p, "install", "global-secrets", Empty)>>)

\* the command is invoked again on the same project
Rerun(p) ==
    /\ pc[p] \in {"finished", "raised"}
    /\ run[p] < MaxRuns
    /\ run' = [run EXCEPT ![p] = @ + 1]
    /\ idx' = [idx EXCEPT ![p] = 1]
    /\ pc' = [pc EXCEPT ![p] = "loop"]
    /\ UNCHANGED <<devel, reqs, context, scanPos, snap, trace, procVars, storeVars>>

----------------------------------------------------------------------------
(* Steps of the dependencies *)

\* stream_output is a lazy sequence of lines: the stream moves on when a
\* reader has read all it holds and waits for more
Awaited(d) ==
    \E p \in Procs : pc[p] = "wait" /\ CurDep(p) = d /\ scanPos[p] = Len(out[d])

\* a running dependency writes a line on its watched stream
Emit(d) ==
    /\ exists[d]
    /\ ~closed[d]
    /\ Awaited(d)
    /\ Len(out[d]) < MaxLines
    /\ \E line \in Lines(d) : out' = [out EXCEPT ![d] = Append(@, line)]
    /\ UNCHANGED <<devel, dispVars, exists, closed, starts, storeVars>>

\* a running dependency closes its watched stream
Close(d) ==
    /\ exists[d]
    /\ ~closed[d]
    /\ Awaited(d)
    /\ closed' = [closed EXCEPT ![d] = TRUE]
    /\ UNCHANGED <<devel, dispVars, exists, out, starts, storeVars>>

----------------------------------------------------------------------------
(* One dispatcher at a time *)

Step(p) ==
    \/ Dispatch(p)
    \/ EnsureCheck(p)
    \/ EnsureStart(p)
    \/ EnsureWait(p)
    \/ Provision(p)
    \/ Subscription(p)
    \/ SecretsRead(p)
    \/ SecretsWrite(p)
    \/ Rerun(p)

\* the steps of one invocation of the command
Run(p) ==
    \/ Dispatch(p)
    \/ EnsureCheck(p)
    \/ EnsureStart(p)
    \/ EnsureWait(p)
    \/ Provision(p)
    \/ Subscription(p)
    \/ SecretsRead(p)
    \/ SecretsWrite(p)

Next ==
    \/ Step(1)
    \/ \E d \in Deps : Emit(d)
    \/ \E d \in Deps : Close(d)

Spec == Init /\ [][Next]_vars

\* one invocation of the command, from its start to its end
NextOnce ==
    \/ Run(1)
    \/ \E d \in Deps : Emit(d)
    \/ \E d \in Deps : Close(d)

\* a dispatcher that can take a step of its invocation takes it: the program
\* is one synchronous thread and stops only where it blocks
SpecFair == Init /\ [][NextOnce]_vars /\ WF_vars(Run(1))

\* two dispatchers on one machine, each about to run dispatch_all on the
\* one requirement of its project
TwoPool ==
    { Entry("redis", NoArgs),
      Entry("redis", K_name :> X),
      Entry("pubsub", (K_topic :> X) @@ (K_subscription :> X)) }

TwoDispatchers ==
    /\ pc = [p \in Procs |-> "loop"]
    /\ idx = [p \in Procs |-> 1]
    /\ run = [p \in Procs |-> 1]
    /\ scanPos = [p \in Procs |-> 0]
    /\ snap = [p \in Procs |-> EmptyMap]
    /\ trace = [p \in Procs |-> <<>>]

InitTwo ==
    /\ reqs \in [Procs -> [1..1 -> TwoPool]]
    /\ context = [KUBE_SERVICE_NAME |-> ServiceName]
    /\ devel = NoCommand
    /\ TwoDispatchers
    /\ FreshMachine

\* the steps of the two invocations interleave in any order
NextTwo ==
    \/ \E p \in Procs : Run(p)
    \/ \E d \in Deps : Emit(d)
    \/ \E d \in Deps : Close(d)

SpecTwo == InitTwo /\ [][NextTwo]_vars

\* an entry of 'redis-urls' is removed out of band, between two runs of
\* requirements: no dispatcher is inside the run of a handler
RemoveSecret(k) ==
    /\ k \in DOMAIN secrets
    /\ \A p \in Procs : pc[p] \in {"idle", "loop", "finished", "raised"}
    /\ secrets' = [j \in DOMAIN secrets \ {k} |-> secrets[j]]
    /\ UNCHANGED <<devel, dispVars, procVars, resources>>

\* the keys a redis requirement of the pools can ask for
SecretKeys == {ServiceName, X, AB}

\* the steps a list of redis requirements goes through
NextOob ==
    \/ Dispatch(1)
    \/ EnsureCheck(1)
    \/ EnsureStart(1)
    \/ EnsureWait(1)
    \/ SecretsRead(1)
    \/ SecretsWrite(1)
    \/ Rerun(1)
    \/ \E d \in Deps : Emit(d)
    \/ \E d \in Deps : Close(d)
    \/ \E k \in SecretKeys : RemoveSecret(k)

\* the redis requirements of a project
OobPool ==
    { Entry("redis", NoArgs),
      Entry("redis", K_name :> X),
      Entry("redis", K_name :> AB) }

\* one dispatcher, about to run dispatch_all on a list of redis requirements
InitOob ==
    /\ \E l \in UNION { [1..m -> OobPool] : m \in 1..MaxReqs } :
          reqs = [p \in Procs |-> IF p = 1 THEN l ELSE <<>>]
    /\ context = [KUBE_SERVICE_NAME |-> ServiceName]
    /\ devel = NoCommand
    /\ NoDispatcher
    /\ FreshMachine

SpecOob == InitOob /\ [][NextOob]_vars

----------------------------------------------------------------------------
(* The devel commands *)

\* custom_script_name of the five devel commands
CommandNames == {"build", "update_requirements", "test", "push", "deploy"}

\* the methods of CustomScriptRunner besides __init__, and the parameters
\* of its run besides self
RunnerMethods == {"run"}
RunnerRunParams == <<"script_name">>

\* the command moves on to another place, having done or logged some things
CmdAt(where, what) == [devel EXCEPT !.at = where, !.log = @ \o what]

\* BaseDevelCommand.run: looking up a method the runner does not have raises
\* AttributeError, calling one with the wrong number of arguments TypeError
DevelRun ==
    /\ devel.at = "run"
    /\ devel' = IF "exists" \notin RunnerMethods
              THEN CmdAt("raised", <<"AttributeError">>)
              ELSE IF devel.default \/ ~devel.script
                   THEN IF devel.name = "deploy"
                        THEN CmdAt("run_default", <<"run_default">>)
                        ELSE CmdAt("done", <<"run_default">>)
                   ELSE IF Len(<<"custom_script_name", "args">>) # Len(RunnerRunParams)
                        THEN CmdAt("raised", <<"TypeError">>)
                        ELSE CmdAt("done", <<"script">>)
    /\ UNCHANGED <<dispVars, procVars, storeVars>>

\* DeployCommand.should_deploy_statics
should_deploy_statics == ~devel.development /\ devel.storage

\* DeployCommand.definition_directories
definition_directories ==
    (IF devel.kubernetes_dir THEN <<"kubernetes_dir">> ELSE <<>>)
    \o (IF devel.development /\ devel.overrides_dir THEN <<"overrides_dir">> ELSE <<>>)

\* DeployCommand.dev_requirements: context.get('DEV_REQUIREMENTS')
dev_requirements == reqs[1]

\* the requirements are dispatched whatever the mode
RunDefault_any_mode ==
    /\ devel.at = "run_default"
    /\ LET statics == IF should_deploy_statics THEN <<"statics">> ELSE <<>> IN
       IF definition_directories # <<>>
       THEN IF dev_requirements # <<>>
            THEN /\ devel' = CmdAt("dev_requirements", statics \o <<"dev_requirements">>)
                 /\ pc' = [pc EXCEPT ![1] = "loop"]
                 /\ run' = [run EXCEPT ![1] = 1]
            ELSE /\ devel' = CmdAt("kubernetes", statics)
                 /\ UNCHANGED <<pc, run>>
       ELSE /\ devel' = CmdAt("done", statics)
            /\ UNCHANGED <<pc, run>>
    /\ UNCHANGED <<reqs, context, idx, scanPos, snap, trace, procVars, storeVars>>

\* DeployCommand.run_default up to the call of dispatch_all, or up to
\* run_kubernetes_deploy when nothing is dispatched
RunDefault ==
    /\ devel.at = "run_default"
    /\ LET statics == IF should_deploy_statics THEN <<"statics">> ELSE <<>> IN
       IF definition_directories # <<>>
       THEN IF dev_requirements # <<>> /\ devel.development
            THEN /\ devel' = CmdAt("dev_requirements", statics \o <<"dev_requirements">>)
                 /\ pc' = [pc EXCEPT ![1] = "loop"]
                 /\ run' = [run EXCEPT ![1] = 1]
            ELSE /\ devel' = CmdAt("kubernetes", statics)
                 /\ UNCHANGED <<pc, run>>
       ELSE /\ devel' = CmdAt("done", statics)
            /\ UNCHANGED <<pc, run>>
    /\ UNCHANGED <<reqs, context, idx, scanPos, snap, trace, procVars, storeVars>>

\* run_dev_requirements_deploy after dispatch_all: it returned, or what it
\* raised goes up through run_default
DevRequirementsDone ==
    /\ devel.at = "dev_requirements"
    /\ pc[1] \in {"finished", "raised"}
    /\ devel' = IF pc[1] = "finished"
              THEN CmdAt("kubernetes", <<"satisfied">>)
              ELSE CmdAt("raised", <<>>)
    /\ UNCHANGED <<dispVars, procVars, storeVars>>

\* DeployCommand.run_kubernetes_deploy
KubernetesDeploy ==
    /\ devel.at = "kubernetes"
    /\ devel' = CmdAt("done", <<"install_secrets", "apply_all">>)
    /\ UNCHANGED <<dispVars, procVars, storeVars>>

\* a devel command entered at run with its options and the project it is
\* in, or the deploy command entered at run_default
DevelCommands ==
    { [name |-> n, entry |-> "run", default |-> d, script |-> s,
       development |-> TRUE, kubernetes_dir |-> TRUE, overrides_dir |-> FALSE,
       storage |-> FALSE, at |-> "run", log |-> <<>>] :
          n \in CommandNames, d \in BOOLEAN, s \in BOOLEAN }
    \cup
    { [name |-> "deploy", entry |-> "run_default", default |-> FALSE, script |-> FALSE,
       development |-> m, kubernetes_dir |-> k, overrides_dir |-> o,
       storage |-> g, at |-> "run_default", log |-> <<>>] :
          m \in BOOLEAN, k \in BOOLEAN, o \in BOOLEAN, g \in BOOLEAN }

InitDevel ==
    /\ \E l \in ReqLists(MaxReqs) : reqs = [p \in Procs |-> IF p = 1 THEN l ELSE <<>>]
    /\ context = [KUBE_SERVICE_NAME |-> ServiceName]
    /\ devel \in DevelCommands
    /\ pc = [p \in Procs |-> "idle"]
    /\ idx = [p \in Procs |-> 1]
    /\ run = [p \in Procs |-> 0]
    /\ scanPos = [p \in Procs |-> 0]
    /\ snap = [p \in Procs |-> EmptyMap]
    /\ trace = [p \in Procs |-> <<>>]
    /\ FreshMachine

NextDevel ==
    \/ DevelRun
    \/ RunDefault
    \/ Run(1)
    \/ DevRequirementsDone
    \/ KubernetesDeploy
    \/ \E d \in Deps : Emit(d)
    \/ \E d \in Deps : Close(d)

SpecDevel == InitDevel /\ [][NextDevel]_vars

TypeOK ==
    /\ devel.at \in {"none", "run", "run_default", "dev_requirements", "kubernetes",
                  "done", "raised"}
    /\ pc \in [Procs -> {"idle", "loop", "check", "start", "wait", "provision",
                         "subscription", "secrets", "write", "raised", "finished"}]
    /\ \A p \in Procs : idx[p] \in 1..(Len(reqs[p]) + 1)
    /\ \A d \in Deps : Len(out[d]) <= MaxLines

----------------------------------------------------------------------------
(* Vocabulary of the properties *)

\* positions of the trace of dispatcher p
Pos(p) == 1..Len(trace[p])

\* the requirement entry an event belongs to
EntryOf(p, e) == reqs[p][e.idx]

\* the argument keys of an entry, 'kind' left out
ArgKeys(entry) == DOMAIN entry \ {K_kind}

\* events that only report: they start nothing, run no command, write nothing
Reports == {"checking", "warn_no_kind", "warn_unsupported", "warn_invalid", "satisfied"}

\* events by which ensure_running returns to the handler
EnsureReturns == {"present", "ready", "eof"}

\* some line written by dependency d contains its readiness marker
MarkerEmitted(d) == \E i \in 1..Len(out[d]) : IsSubstr(started_log(d), out[d][i])

\* the whitelist of each kind as the design states it
Whitelist(kind) ==
    CASE kind = "postgres" -> {K_name}
      [] kind = "redis" -> {K_name}
      [] kind = "elastic" -> {}
      [] kind = "pubsub" -> {K_topic, K_subscription}
      [] kind = "cassandra" -> {K_keyspace}

\* the 'already exists' marker of each provisioning operation as the design
\* states it
Marker(op) ==
    CASE op = "createdb" -> <<"already", "exists">>
      [] op = "cqlsh" -> <<"already", "exists">>
      [] op = "pubsub_add_topic" -> <<"Topic", "already", "exists">>
      [] op = "pubsub_add_subscription" -> <<"Subscription", "already", "exists">>

----------------------------------------------------------------------------
(* C1 *)

\* C1: an entry of a supported kind that carries an argument key outside its
\* kind's whitelist is only warned about and skipped: its handler's run is
\* not invoked, nothing is started, no command is run, no secret is written.
\* This is the claim as stated; it is violated by {kind: postgres, nam: x},
\* because 'nam' in ('name') is a substring test.
C1_DisallowedKeySkipped ==
    \A p \in Procs : \A k \in Pos(p) :
        LET e == trace[p][k]
            entry == EntryOf(p, e)
        IN  (K_kind \in DOMAIN entry /\ KindOf(entry) \in Kinds
             /\ ~(ArgKeys(entry) \subseteq Whitelist(KindOf(entry))))
            => e.ev \in Reports

----------------------------------------------------------------------------
(* C2 *)

\* C2: when the administrative command of a provisioning operation fails, the
\* operation returns normally exactly if the captured stderr contains the
\* operation's 'already exists' marker; otherwise the failure is raised to
\* the caller with the same stderr.
C2_FailureClassified ==
    \A p \in Procs : \A k \in Pos(p) :
        LET e == trace[p][k] IN
        e.ev = "failed" =>
            /\ k < Len(trace[p])
            /\ IF IsSubstr(Marker(e.op), e.arg)
               THEN trace[p][k + 1].ev = "exists"
               ELSE /\ trace[p][k + 1].ev = "raise"
                    /\ trace[p][k + 1].arg = e.arg
                    /\ trace[p][k + 1].op = e.op

\* a subscription that already existed was accepted, after a failure of
\* another command had been raised
C2_Witness ==
    \E k, m \in Pos(1) :
        /\ trace[1][k].ev = "raise"
        /\ k < m
        /\ trace[1][m].ev = "exists"
        /\ trace[1][m].op = "pubsub_add_subscription"

----------------------------------------------------------------------------
(* C3 *)

\* the positions the step of dispatcher p adds to its trace
NewPos(p) == (Len(trace[p]) + 1)..Len(trace'[p])

\* the command run in this step fails for a reason of its own, not because
\* the resource is there
FailsOtherwise(p) ==
    \E k \in NewPos(p) :
        trace'[p][k].ev = "failed" /\ trace'[p][k].arg \in OtherStderr

\* an earlier provisioning call for op and nm returned normally
EnsuredBefore(p, op, nm) ==
    \E k \in Pos(p) :
        /\ trace[p][k].ev \in {"created", "exists"}
        /\ trace[p][k].op = op
        /\ trace[p][k].arg = nm

\* C3: a provisioning call for a resource name for which an earlier call
\* returned normally, against a service that answers the creation of an
\* existing resource with its 'already exists' message, does not raise and
\* leaves the set of existing resources as it was.
C3_EnsurePresentIdempotent ==
    [][\A p \in Procs : \A k \in NewPos(p) :
          LET e == trace'[p][k] IN
          (e.ev = "cmd" /\ EnsuredBefore(p, e.op, e.arg) /\ ~FailsOtherwise(p))
          => (pc'[p] # "raised" /\ resources' = resources)]_vars

\* a keyspace was created by one call and found to exist by a later one
C3_Witness ==
    \E k, m \in Pos(1) :
        /\ k < m
        /\ trace[1][k].ev = "created" /\ trace[1][k].op = "cqlsh"
        /\ trace[1][m].ev = "exists" /\ trace[1][m].op = "cqlsh"
        /\ trace[1][m].arg = trace[1][k].arg
        /\ trace[1][m].run = trace[1][k].run

----------------------------------------------------------------------------
(* C4 *)

\* an entry dispatch_all cannot resolve to a handler
Unresolvable(entry) == K_kind \notin DOMAIN entry \/ KindOf(entry) \notin Kinds

\* C4: an entry without 'kind' or of an unsupported kind is skipped with a
\* warning, never raises, and the entries after it are still dispatched:
\* when dispatch_all has finished, every entry of the list was dispatched.
C4_UnresolvableEntrySkipped ==
    \A p \in Procs :
        /\ \A k \in Pos(p) :
              Unresolvable(EntryOf(p, trace[p][k]))
              => trace[p][k].ev \in {"checking", "warn_no_kind", "warn_unsupported"}
        /\ (idx[p] <= Len(reqs[p]) /\ Unresolvable(CurEntry(p))) => pc[p] = "loop"
        /\ pc[p] = "finished" =>
              \A j \in 1..Len(reqs[p]) :
                  \E k \in Pos(p) :
                      /\ trace[p][k].run = run[p]
                      /\ trace[p][k].idx = j
                      /\ Unresolvable(reqs[p][j])
                         => trace[p][k].ev \in {"warn_no_kind", "warn_unsupported"}

\* [{kind: mysql}, {kind: postgres, name: x}] has run to its end and the
\* database x was created by the second entry
C4_Witness ==
    /\ reqs[1] = <<Entry("mysql", NoArgs), Entry("postgres", K_name :> X)>>
    /\ pc[1] = "finished"
    /\ \E k \in Pos(1) :
          /\ trace[1][k].ev = "created"
          /\ trace[1][k].idx = 2
          /\ trace[1][k].arg = X
    /\ \E k \in Pos(1) : trace[1][k].ev = "warn_unsupported" /\ trace[1][k].idx = 1

----------------------------------------------------------------------------
(* C5 *)

\* what the events before position k of the trace brought about is in place
EffectsInPlace(p, k) ==
    \A m \in 1..(k - 1) :
        LET e == trace[p][m] IN
        /\ e.ev = "created" => Resource(e.op, e.arg) \in resources
        /\ e.ev = "start" => exists[e.op]
        /\ e.ev = "write" => e.arg \in DOMAIN secrets

\* C5: a command failure whose stderr lacks the 'already exists' marker
\* leaves dispatch_all as an exception: nothing more happens in that run, no
\* entry after the failing one is dispatched, and what the run did before
\* stays as it is.
C5_FatalFailurePropagates ==
    \A p \in Procs : \A k \in Pos(p) :
        LET e == trace[p][k] IN
        (e.ev = "failed" /\ ~IsSubstr(Marker(e.op), e.arg)) =>
            /\ k < Len(trace[p])
            /\ trace[p][k + 1].ev = "raise"
            /\ \A m \in Pos(p) : m > k + 1 => trace[p][m].run > e.run
            /\ e.run = run[p] => (pc[p] = "raised" /\ idx[p] = e.idx)
            /\ EffectsInPlace(p, k)

\* the first run failed at the second entry after the first had created a
\* resource, and the second run failed at the first entry, with the second
\* entry still to come
C5_Witness ==
    /\ Len(reqs[1]) = 2
    /\ pc[1] = "raised" /\ run[1] = 2 /\ idx[1] = 1
    /\ \E k, m \in Pos(1) :
          /\ k < m
          /\ trace[1][k].ev = "created" /\ trace[1][k].idx = 1 /\ trace[1][k].run = 1
          /\ trace[1][m].ev = "raise" /\ trace[1][m].idx = 2 /\ trace[1][m].run = 1

----------------------------------------------------------------------------
(* C6 *)

\* dispatcher p returns from ensure_running in this step
EnsureReturnsNow(p) == pc[p] \in {"check", "wait"} /\ pc'[p] \notin {"check", "start", "wait"}

\* C6: whenever ensure returns, a process with the dependency's name exists
\* and has written the readiness marker on the watched stream. This is the
\* claim as stated; it is violated when the stream ends before the marker.
C6_EnsureReturnsReady ==
    [][\A p \in Procs :
          EnsureReturnsNow(p) =>
              LET d == CurDep(p) IN
              /\ exists'[d]
              /\ \E i \in 1..Len(out'[d]) : IsSubstr(started_log(d), out'[d][i])]_vars

----------------------------------------------------------------------------
(* C7 *)

\* C7: an ensure that finds the process present takes no start action and
\* reads nothing from the stream, the handler goes on at once; and no start
\* action for a dependency comes after an ensure for it has returned.
C7_PresentMeansNoStart ==
    \A p \in Procs : \A k \in Pos(p) :
        LET e == trace[p][k] IN
        /\ e.ev = "present" =>
              (k < Len(trace[p]) =>
                  trace[p][k + 1].ev \notin {"start", "line", "ready", "eof", "absent", "present"})
        /\ e.ev = "start" =>
              /\ k > 1 /\ trace[p][k - 1].ev = "absent"
              /\ \A m \in 1..(k - 1) :
                    ~(trace[p][m].ev \in EnsureReturns \cup {"start"} /\ trace[p][m].op = e.op)
              /\ starts[e.op] = 1

\* a dependency started for one entry was found present by a later ensure
C7_Witness ==
    \E k, m \in Pos(1) :
        /\ k < m
        /\ trace[1][k].ev = "start"
        /\ trace[1][m].ev = "present"
        /\ trace[1][m].op = trace[1][k].op
        /\ trace[1][m].run = trace[1][k].run

----------------------------------------------------------------------------
(* C8 *)

\* C8: an ensure that finds the process absent starts it once and returns
\* only on reading a line that contains the readiness marker, the first such
\* line of the stream, all lines before it having been read in order. This
\* is the claim as stated; it is violated when the stream ends first.
C8_AbsentStartsAndWaits ==
    \A p \in Procs : \A k \in Pos(p) :
        LET e == trace[p][k] IN
        /\ e.ev = "absent" =>
              (k < Len(trace[p]) => trace[p][k + 1].ev = "start")
        /\ e.ev = "start" =>
              (k < Len(trace[p]) => trace[p][k + 1].ev \in {"line", "ready"})
        /\ e.ev = "line" =>
              /\ ~IsSubstr(started_log(e.op), e.arg)
              /\ k < Len(trace[p]) => trace[p][k + 1].ev \in {"line", "ready"}
        /\ e.ev = "ready" => IsSubstr(started_log(e.op), e.arg)
        /\ e.ev \in {"line", "ready"} =>
              \E j \in 1..Len(out[e.op]) :
                  /\ j < k
                  /\ out[e.op][j] = e.arg
                  /\ trace[p][k - j].ev = "start"

----------------------------------------------------------------------------
(* C9 *)

\* C9, no timeout: a dispatcher waiting for a dependency that has written
\* the marker gets out of the wait; while the dependency has neither written
\* the marker nor closed the stream the dispatcher stays in the wait at the
\* same entry, so that no later entry is dispatched.
C9_NoTimeout ==
    /\ (pc[1] = "wait" /\ MarkerEmitted(CurDep(1))) ~> (pc[1] # "wait")
    /\ [][\A p \in Procs :
             pc[p] = "wait" =>
                 LET d == CurDep(p) IN
                 (~closed'[d] /\ \A i \in 1..Len(out'[d]) : ~IsSubstr(started_log(d), out'[d][i]))
                 => (pc'[p] = "wait" /\ idx'[p] = idx[p])]_vars

\* the dispatcher waits at the first of two entries for a dependency that
\* wrote all it will write, none of it the marker, and keeps the stream open
C9_Witness ==
    /\ pc[1] = "wait" /\ idx[1] = 1 /\ Len(reqs[1]) = 2
    /\ Len(out[CurDep(1)]) = MaxLines
    /\ scanPos[1] = MaxLines
    /\ ~MarkerEmitted(CurDep(1))
    /\ ~closed[CurDep(1)]

----------------------------------------------------------------------------
(* C10 *)

\* C10: a run of the redis requirement with secret key k on a bundle of n
\* entries adds, when k is absent, the one entry k -> redis://dev-redis:6379/n
\* and changes no other entry; when k is present it returns and leaves the
\* bundle as it is.
C10_RedisSecretDerived ==
    [][/\ (\A p \in Procs : pc[p] # "write") => secrets' = secrets
       /\ \A p \in Procs :
          /\ (pc[p] = "secrets" /\ pc'[p] # "secrets") =>
                /\ secrets' = secrets
                /\ IF CurName(p) \in DOMAIN secrets
                   THEN pc'[p] = "loop" /\ idx'[p] = idx[p] + 1
                   ELSE pc'[p] = "write"
          /\ (pc[p] = "write" /\ pc'[p] # "write") =>
                LET k == CurName(p)
                    n == Cardinality(DOMAIN secrets)
                IN  /\ k \notin DOMAIN secrets
                    /\ DOMAIN secrets' = DOMAIN secrets \cup {k}
                    /\ secrets'[k] = [scheme |-> "redis", host |-> "dev-redis", port |-> 6379, db |-> n]
                    /\ \A j \in DOMAIN secrets : secrets'[j] = secrets[j]]_vars

\* the bundle holds two entries, the second added at index 1, and a later
\* run of the redis requirement found its key present
C10_Witness ==
    /\ Cardinality(DOMAIN secrets) = 2
    /\ \E k \in DOMAIN secrets : secrets[k].db = 1
    /\ \E m \in Pos(1) :
          /\ m < Len(trace[1])
          /\ trace[1][m].ev = "read"
          /\ trace[1][m + 1].ev = "satisfied"

----------------------------------------------------------------------------
(* C11 *)

\* C11: every key of the 'redis-urls' mapping keeps the value it was given
\* when it was added: a step adds keys, it overwrites and removes none.
C11_SecretsOnlyGrow ==
    [][\A k \in DOMAIN secrets :
          /\ k \in DOMAIN secrets'
          /\ secrets'[k] = secrets[k]]_vars

\* a redis requirement was run three times or more, one of the runs for a
\* second key, one for a key that was in the mapping
C11_Witness ==
    /\ Cardinality(DOMAIN secrets) = 2
    /\ Cardinality({m \in Pos(1) : trace[1][m].ev = "read"}) >= 3
    /\ Cardinality({m \in Pos(1) : trace[1][m].ev = "write"}) = 2

----------------------------------------------------------------------------
(* C12 *)

\* the positions of the trace at which an entry was written to the mapping
Writes(p) == {m \in Pos(p) : trace[p][m].ev = "write"}

\* C12: from an empty mapping and with one dispatcher, the databases of a
\* mapping of n keys are exactly 0..n-1 and no two keys share one; the key
\* written after j earlier writes gets database j.
C12_IndicesDense ==
    /\ [](LET n == Cardinality(DOMAIN secrets) IN
          /\ {secrets[k].db : k \in DOMAIN secrets} = 0..(n - 1)
          /\ \A j, k \in DOMAIN secrets : secrets[j].db = secrets[k].db => j = k)
    /\ [][\A p \in Procs : \A m \in NewPos(p) :
             trace'[p][m].ev = "write" =>
                 /\ trace'[p][m].arg \in DOMAIN secrets'
                 /\ trace'[p][m].arg \notin DOMAIN secrets
                 /\ secrets'[trace'[p][m].arg].db = Cardinality(Writes(p))]_vars

\* two keys were written, the service name first and an explicit name second
C12_Witness ==
    \E m, i \in Writes(1) :
        /\ m < i
        /\ trace[1][m].arg = ServiceName
        /\ trace[1][i].arg # ServiceName
        /\ secrets[trace[1][i].arg].db = 1
        /\ secrets[ServiceName].db = 0

----------------------------------------------------------------------------
(* C13 *)

\* the events with which dispatch returns to the loop of dispatch_all
EntryEnds == {"satisfied", "warn_no_kind", "warn_unsupported"}

\* C13: dispatch_all handles the entries in the order of the list, one at a
\* time: every event a step logs belongs to the entry of the event before it,
\* or to the next entry when that event was a return to the loop; the first
\* event of a run belongs to entry 1; the loop moves on by one entry, and
\* only on such a return; a run that finishes has gone through every entry.
C13_EntriesInOrder ==
    [][\A p \in Procs :
          /\ \A k \in NewPos(p) :
                LET e == trace'[p][k] IN
                /\ e.idx \in 1..Len(reqs[p])
                /\ (k = 1 \/ (k > 1 /\ trace'[p][k - 1].run # e.run)) => e.idx = 1
                /\ k > 1 =>
                      LET b == trace'[p][k - 1] IN
                      /\ b.run <= e.run
                      /\ b.run = e.run =>
                            \/ e.idx = b.idx /\ b.ev \notin EntryEnds
                            \/ e.idx = b.idx + 1 /\ b.ev \in EntryEnds
          /\ IF NewPos(p) # {}
             THEN LET e == trace'[p][Len(trace'[p])] IN
                  /\ e.run = run'[p]
                  /\ idx'[p] = IF e.ev \in EntryEnds THEN e.idx + 1 ELSE e.idx
             ELSE run'[p] = run[p] => idx'[p] = idx[p]
          /\ (pc[p] # "finished" /\ pc'[p] = "finished") =>
                \A i \in 1..Len(reqs[p]) :
                    \E k \in Pos(p) : trace[p][k].run = run[p] /\ trace[p][k].idx = i]_vars

\* a finished run of two entries, each of which ran a command
C13_Witness ==
    /\ pc[1] = "finished"
    /\ \A i \in 1..2 :
          \E k \in Pos(1) :
              /\ trace[1][k].ev = "cmd"
              /\ trace[1][k].run = run[1]
              /\ trace[1][k].idx = i

----------------------------------------------------------------------------
(* C14 *)

\* the keyspace name the entry of event e asks for
KeyspaceAsked(p, e) ==
    LET entry == EntryOf(p, e) IN
    IF K_keyspace \in DOMAIN entry /\ entry[K_keyspace] # Empty
    THEN entry[K_keyspace]
    ELSE context["KUBE_SERVICE_NAME"]

HasDash(s) == \E i \in 1..Len(s) : s[i] = "-"

\* C14: the name in a create-keyspace command is the asked name with every
\* '-' rewritten to '_'; the warning about dashes is logged before the command
\* exactly when the asked name had a '-'; rewriting the rewritten name gives
\* it back unchanged.
C14_KeyspaceSanitized ==
    [][\A p \in Procs : \A k \in NewPos(p) :
          LET e == trace'[p][k] IN
          /\ (e.ev = "cmd" /\ e.op = "cqlsh") =>
                LET name == KeyspaceAsked(p, e) IN
                /\ Len(e.arg) = Len(name)
                /\ \A i \in 1..Len(name) :
                      e.arg[i] = IF name[i] = "-" THEN "_" ELSE name[i]
                /\ ~HasDash(e.arg)
                /\ HasDash(name) <=>
                      (k > 1 /\ trace'[p][k - 1].ev = "warn_dashes"
                             /\ trace'[p][k - 1].arg = e.arg)
                /\ clean_keyspace_name(e.arg) = e.arg
          /\ e.ev = "warn_dashes" =>
                /\ k < Len(trace'[p])
                /\ trace'[p][k + 1].ev = "cmd"
                /\ trace'[p][k + 1].op = "cqlsh"]_vars

\* one keyspace was created under a name rewritten from two dashes, with
\* the warning, and one under a name without dashes, without the warning
C14_Witness ==
    \E k, m \in Pos(1) :
        /\ trace[1][k].ev = "cmd" /\ trace[1][k].op = "cqlsh"
        /\ trace[1][k].arg = <<"s", "_", "v", "_", "c">>
        /\ trace[1][k - 1].ev = "warn_dashes"
        /\ trace[1][k + 1].ev = "created"
        /\ trace[1][m].ev = "cmd" /\ trace[1][m].op = "cqlsh"
        /\ trace[1][m].arg = X
        /\ trace[1][m - 1].ev # "warn_dashes"
        /\ trace[1][m + 1].ev = "created"

----------------------------------------------------------------------------
(* C15 *)

\* dispatcher p is in a run of dispatch_all that follows a run, on the same
\* list and context, which returned without an exception
SecondRun(p) ==
    /\ run[p] >= 2
    /\ pc[p] \notin {"idle", "finished", "raised"}
    /\ \A k \in Pos(p) : trace[p][k].run = run[p] - 1 => trace[p][k].ev # "raise"

\* processes, resources and secrets are after the step what they were
MachineUnchanged ==
    /\ starts' = starts
    /\ exists' = exists
    /\ resources' = resources
    /\ secrets' = secrets

\* C15 as stated: a second run of dispatch_all after a first that completed
\* without error never raises, starts nothing and leaves the running
\* dependencies, the resources and the secrets as the first run left them.
C15_SecondRunIdle ==
    [][\A p \in Procs :
          SecondRun(p) => (pc'[p] # "raised" /\ MachineUnchanged)]_vars

\* C15 amended: such a second run starts nothing and leaves dependencies,
\* resources and secrets as they were; it does not raise unless one of
\* its commands fails for a reason other than the resource being there.
C15_SecondRunIdleUnlessFailure ==
    [][\A p \in Procs :
          SecondRun(p) =>
              /\ MachineUnchanged
              /\ pc'[p] = "raised" => FailsOtherwise(p)]_vars

\* a second run finished after a first without error: it found a dependency
\* present and a resource existing, which the first had started and created
C15_Witness ==
    /\ run[1] = 2 /\ pc[1] = "finished"
    /\ \A k \in Pos(1) : trace[1][k].ev # "raise"
    /\ \E k, m \in Pos(1) :
          /\ trace[1][k].run = 1 /\ trace[1][k].ev = "start"
          /\ trace[1][m].run = 2 /\ trace[1][m].ev = "present"
    /\ \E k, m \in Pos(1) :
          /\ trace[1][k].run = 1 /\ trace[1][k].ev = "created"
          /\ trace[1][m].run = 2 /\ trace[1][m].ev = "exists"
          /\ trace[1][m].op = trace[1][k].op /\ trace[1][m].arg = trace[1][k].arg

----------------------------------------------------------------------------
(* C16 *)

\* C16: the engine never tears a dependency down: a process that exists
\* under a dependency's name exists after every step of ensure, provisioning
\* and dispatch.
C16_NeverTornDown ==
    [][\A d \in Deps : exists[d] => exists'[d]]_vars

\* a dependency started once went through a failed command, a later run
\* with its ensure and a command, and is there
C16_Witness ==
    \E d \in Deps :
        /\ exists[d] /\ starts[d] = 1
        /\ run[1] = 2 /\ pc[1] = "finished"
        /\ \E k, m, n \in Pos(1) :
              /\ k < m /\ m < n
              /\ trace[1][k].ev = "raise" /\ trace[1][k].run = 1
              /\ trace[1][m].ev = "present" /\ trace[1][m].op = d
              /\ trace[1][n].ev = "created" /\ trace[1][n].run = 2

----------------------------------------------------------------------------
(* C17 *)

\* name `used` agrees with what entry says under key: the service name of
\* the context when the key is missing, the value when it is given and not
\* empty
NameAsAsked(entry, key, used) ==
    /\ key \notin DOMAIN entry => used = context["KUBE_SERVICE_NAME"]
    /\ (key \in DOMAIN entry /\ entry[key] # Empty) => used = entry[key]

\* C17: the database of a postgres entry is named by 'name', the secret key
\* of a redis entry by 'name', the topic of a pubsub entry by 'topic', the
\* keyspace of a cassandra entry by 'keyspace' (the name then being
\* sanitized); a missing argument stands for the context's service name.
C17_NameDefaults ==
    [][\A p \in Procs : \A k \in NewPos(p) :
          LET e == trace'[p][k]
              entry == EntryOf(p, e)
          IN
          /\ (e.ev = "cmd" /\ e.op = "createdb") => NameAsAsked(entry, K_name, e.arg)
          /\ (e.ev \in {"read", "write"}) => NameAsAsked(entry, K_name, e.arg)
          /\ (e.ev = "cmd" /\ e.op = "pubsub_add_topic") => NameAsAsked(entry, K_topic, e.arg)
          /\ (e.ev = "cmd" /\ e.op = "cqlsh") =>
                \E asked \in {context["KUBE_SERVICE_NAME"]} \cup {entry[a] : a \in ArgKeys(entry)} :
                    /\ NameAsAsked(entry, K_keyspace, asked)
                    /\ e.arg = ReplaceDash(asked)]_vars

\* one run created a database named after the service for an entry without
\* 'name', and one named x for an entry with name x
C17_Witness ==
    \E k, m \in Pos(1) :
        /\ trace[1][k].ev = "created" /\ trace[1][k].op = "createdb"
        /\ trace[1][k].arg = ServiceName
        /\ K_name \notin DOMAIN EntryOf(1, trace[1][k])
        /\ trace[1][m].ev = "created" /\ trace[1][m].op = "createdb"
        /\ trace[1][m].arg = X
        /\ K_name \in DOMAIN EntryOf(1, trace[1][m])

----------------------------------------------------------------------------
(* C18 *)

\* what the handler of dependency d does first after ensure_running
AfterEnsureEvents(d) ==
    CASE d = "dev-redis" -> {"read"}
      [] d = "dev-elasticsearch" -> {"satisfied"}
      [] d = "dev-cassandra" -> {"cmd", "warn_dashes"}
      [] OTHER -> {"cmd"}

\* C18: when the watched stream has ended and no line of it contained the
\* marker, the wait can take its step, and the step is a normal return of
\* ensure: nothing is raised, and what the same entry does next is its
\* provisioning step (the secret for redis, nothing more for elastic).
C18_StreamEndReturns ==
    /\ [](\A p \in Procs :
            (pc[p] = "wait" /\ closed[CurDep(p)] /\ ~MarkerEmitted(CurDep(p))) =>
                ENABLED EnsureWait(p))
    /\ [][\A p \in Procs : \A k \in NewPos(p) :
             LET e == trace'[p][k] IN
             /\ e.ev = "eof" =>
                   /\ pc[p] = "wait"
                   /\ closed[e.op] /\ ~MarkerEmitted(e.op)
                   /\ pc'[p] = CASE e.op = "dev-redis" -> "secrets"
                                 [] e.op = "dev-elasticsearch" -> "loop"
                                 [] OTHER -> "provision"
                   /\ e.op # "dev-elasticsearch" => (k = Len(trace'[p]) /\ idx'[p] = idx[p])
             /\ (k > 1 /\ trace'[p][k - 1].ev = "eof") =>
                   /\ e.ev \in AfterEnsureEvents(trace'[p][k - 1].op)
                   /\ e.run = trace'[p][k - 1].run
                   /\ e.idx = trace'[p][k - 1].idx]_vars

\* a dependency was started, its stream ended without the marker, and the
\* resource of the entry was then created
C18_Witness ==
    \E k \in Pos(1) :
        /\ k > 1 /\ k + 1 < Len(trace[1])
        /\ trace[1][k - 1].ev \in {"start", "line"}
        /\ trace[1][k].ev = "eof"
        /\ trace[1][k + 1].ev = "cmd"
        /\ trace[1][k + 2].ev = "created"

----------------------------------------------------------------------------
(* C19 *)

\* the events of ensure_running, and those of a create command or of a
\* write to the secrets
EnsureEvents == {"present", "absent", "start", "line", "ready", "eof"}
EffectEvents == {"cmd", "write", "install"}

\* events m and k of the trace t belong to the same entry of the same run
SameEntry(t, m, k) == t[m].run = t[k].run /\ t[m].idx = t[k].idx

\* C19: the handler of every kind issues a create command or writes a secret
\* for an entry only after ensure_running for the dependency of that entry
\* has returned, and ensure does nothing for the entry afterwards; as long
\* as ensure has not returned, the step issues no command and no write and
\* leaves resources and secrets alone.
C19_EnsureBeforeEffects ==
    [][\A p \in Procs :
          /\ \A k \in NewPos(p) :
                LET t == trace'[p] IN
                /\ t[k].ev \in EffectEvents =>
                      \E m \in 1..(k - 1) :
                          /\ SameEntry(t, m, k)
                          /\ t[m].ev \in EnsureReturns
                          /\ t[m].op = DepOf(KindOf(EntryOf(p, t[k])))
                /\ t[k].ev \in EnsureEvents =>
                      \A j \in 1..(k - 1) :
                          SameEntry(t, j, k) => t[j].ev \notin EffectEvents
          /\ pc[p] \in {"check", "start", "wait"} =>
                /\ resources' = resources
                /\ secrets' = secrets
                /\ pc'[p] \in {"check", "start", "wait"} =>
                      \A k \in NewPos(p) : trace'[p][k].ev \notin EffectEvents]_vars

\* the first entry wrote its secret after its dependency was ready; the
\* second waits for a dependency that is silent, and has issued nothing
C19_Witness ==
    /\ \E m, k \in Pos(1) :
          /\ m < k
          /\ trace[1][m].ev = "ready" /\ trace[1][m].idx = 1
          /\ trace[1][k].ev = "write" /\ trace[1][k].idx = 1
    /\ pc[1] = "wait" /\ idx[1] = 2
    /\ scanPos[1] = Len(out[CurDep(1)])
    /\ Len(out[CurDep(1)]) >= 1
    /\ ~closed[CurDep(1)]

----------------------------------------------------------------------------
(* C20 *)

\* the events with which an ensure_*_present method returns normally
Ensured == {"created", "exists"}

\* C20: a create-subscription command is issued only for an entry with a
\* 'subscription' argument, right after the topic of the entry was ensured,
\* for that topic and for the subscription the entry names; an entry whose
\* topic was ensured goes on to the subscription exactly when it has the
\* argument; after a fatal failure of the topic creation the entry issues
\* nothing more.
C20_TopicThenSubscription ==
    [][\A p \in Procs :
          LET t == trace'[p] IN
          /\ \A k \in NewPos(p) :
                LET e == t[k]
                    entry == EntryOf(p, e)
                IN
                /\ (e.ev = "cmd" /\ e.op = "pubsub_add_subscription") =>
                      /\ K_subscription \in DOMAIN entry
                      /\ e.arg = entry[K_subscription]
                      /\ k > 2
                      /\ t[k - 1].ev = "on_topic"
                      /\ t[k - 2].ev \in Ensured
                      /\ t[k - 2].op = "pubsub_add_topic"
                      /\ t[k - 2].arg = t[k - 1].arg
                      /\ SameEntry(t, k - 2, k)
                /\ (e.ev \in Ensured /\ e.op = "pubsub_add_topic") =>
                      IF K_subscription \in DOMAIN entry
                      THEN k = Len(t) /\ pc'[p] = "subscription" /\ idx'[p] = idx[p]
                      ELSE /\ k + 2 = Len(t)
                           /\ t[k + 1].ev = "no_subscription"
                           /\ t[k + 2].ev = "satisfied"
                /\ (k > 1 /\ t[k - 1].ev = "raise" /\ t[k - 1].op = "pubsub_add_topic") =>
                      ~SameEntry(t, k - 1, k)
          /\ (pc[p] = "subscription" /\ pc'[p] # "subscription") =>
                /\ Len(t) >= Len(trace[p]) + 2
                /\ t[Len(trace[p]) + 2].ev = "cmd"
                /\ t[Len(trace[p]) + 2].op = "pubsub_add_subscription"]_vars

\* one entry had topic and subscription created; an entry of a later run
\* with a 'subscription' argument failed fatally at its topic, and the run
\* after it issued a command again
C20_Witness ==
    \E k, m, n \in Pos(1) :
        /\ k < m /\ m < n
        /\ trace[1][k].ev = "created" /\ trace[1][k].op = "pubsub_add_subscription"
        /\ trace[1][k - 2].ev = "on_topic" /\ trace[1][k - 2].arg = X
        /\ trace[1][k - 3].ev = "created" /\ trace[1][k - 3].op = "pubsub_add_topic"
        /\ trace[1][m].ev = "raise" /\ trace[1][m].op = "pubsub_add_topic"
        /\ K_subscription \in DOMAIN EntryOf(1, trace[1][m])
        /\ trace[1][n].ev = "cmd"

----------------------------------------------------------------------------
(* C21 *)

\* the events with which a provisioning call ends
CallEnds == {"created", "exists", "raise"}

\* C21: within one run of dispatch_all nothing is retried: the handler of an
\* entry is run at most once, each provisioning operation of an entry issues
\* its command once, and the command is followed at once by the end of the
\* call: created, or failed and found existing, or failed and raised.
C21_NothingRetried ==
    [][\A p \in Procs : \A k \in NewPos(p) :
          LET t == trace'[p] IN
          /\ t[k].ev \in {"run", "cmd"} =>
                \A m \in 1..(k - 1) :
                    SameEntry(t, m, k) => ~(t[m].ev = t[k].ev /\ t[m].op = t[k].op)
          /\ t[k].ev = "cmd" =>
                /\ k < Len(t)
                /\ t[k + 1].ev \in {"created", "failed"}
                /\ t[k + 1].ev = "failed" => (k + 1 < Len(t) /\ t[k + 2].ev \in {"exists", "raise"})
          /\ t[k].ev \in CallEnds =>
                Cardinality({m \in 1..k : /\ SameEntry(t, m, k)
                                          /\ t[m].ev = "cmd"
                                          /\ t[m].op = t[k].op}) = 1]_vars

\* in one run a command succeeded, one was answered 'already exists' and
\* one failed fatally
C21_Witness ==
    \E k, m, n \in Pos(1) :
        /\ trace[1][k].ev = "created"
        /\ trace[1][m].ev = "exists"
        /\ trace[1][n].ev = "raise"
        /\ trace[1][k].run = trace[1][m].run
        /\ trace[1][m].run = trace[1][n].run

----------------------------------------------------------------------------
(* C22 *)

\* C22: the redis handler has the global secrets installed once, right
\* after it wrote a new entry to 'redis-urls', and every write is followed
\* by the installation; when it finds the key in the mapping it installs
\* nothing.
C22_InstallAfterWrite ==
    [][\A p \in Procs :
          LET t == trace'[p] IN
          /\ \A k \in NewPos(p) :
                /\ t[k].ev = "install" =>
                      /\ k > 1 /\ t[k - 1].ev = "write"
                      /\ SameEntry(t, k - 1, k)
                      /\ t[k - 1].arg \in DOMAIN secrets' /\ t[k - 1].arg \notin DOMAIN secrets
                      /\ \A m \in 1..(k - 1) : SameEntry(t, m, k) => t[m].ev # "install"
                /\ t[k].ev = "write" => (k < Len(t) /\ t[k + 1].ev = "install")
          /\ (pc[p] = "secrets" /\ pc'[p] # "secrets" /\ CurName(p) \in DOMAIN secrets) =>
                /\ pc'[p] = "loop"
                /\ \A k \in NewPos(p) : t[k].ev \notin {"write", "install"}]_vars

\* a run installed the secrets for a new key, and a later run of the same
\* entry found the key and installed nothing
C22_Witness ==
    \E k, m \in Pos(1) :
        /\ k + 1 < m
        /\ trace[1][k].ev = "install" /\ trace[1][k].run = 1
        /\ trace[1][m].ev = "read" /\ trace[1][m].run = 2
        /\ trace[1][m].idx = trace[1][k].idx
        /\ trace[1][m + 1].ev = "satisfied"
        /\ \A j \in Pos(1) : trace[1][j].ev = "install" => j = k

----------------------------------------------------------------------------
(* C26 *)

\* C26: no step of dispatch_all or of a handler changes the context or an
\* entry of the requirement list: 'kind' is taken out of a copy, and an entry
\* that is checked, in a first or a later run, has its 'kind'.
C26_InputsUnchanged ==
    [][/\ context' = context
       /\ reqs' = reqs
       /\ \A p \in Procs : \A k \in NewPos(p) :
             trace'[p][k].ev = "checking" => K_kind \in DOMAIN EntryOf(p, trace'[p][k])]_vars

\* the handler of an entry was run in a first and again in a second run
C26_Witness ==
    \E k, m \in Pos(1) :
        /\ trace[1][k].ev = "run" /\ trace[1][k].run = 1
        /\ trace[1][m].ev = "run" /\ trace[1][m].run = 2
        /\ trace[1][m].idx = trace[1][k].idx
        /\ trace[1][m].op = trace[1][k].op
        /\ pc[1] = "finished"

----------------------------------------------------------------------------
(* C27 *)

\* C27: a requirement is reported satisfied only when the run method of its
\* handler was executed, to its end; an entry skipped for its kind or for an
\* argument key is not reported satisfied. This is the claim as stated; it
\* is violated by an entry with a key outside valid_arguments.
C27_SatisfiedOnlyAfterRun ==
    [][\A p \in Procs : \A k \in NewPos(p) :
          LET t == trace'[p] IN
          t[k].ev = "satisfied" =>
              /\ \E m \in 1..(k - 1) : SameEntry(t, m, k) /\ t[m].ev = "run"
              /\ \A m \in 1..(k - 1) :
                    SameEntry(t, m, k) => t[m].ev \notin {"warn_unsupported", "warn_invalid"}]_vars

----------------------------------------------------------------------------
(* C30 *)

\* C30: for an elastic entry the engine runs no command and reads or writes
\* no secret, and changes neither resources nor secrets; an elastic entry
\* with an argument is not run: nothing is checked or started for it.
C30_ElasticOnlyEnsures ==
    [][\A p \in Procs :
          (pc[p] \notin {"idle", "finished", "raised"} /\ idx[p] <= Len(reqs[p])
           /\ K_kind \in DOMAIN CurEntry(p) /\ CurKind(p) = "elastic") =>
              /\ resources' = resources
              /\ secrets' = secrets
              /\ \A k \in NewPos(p) :
                    /\ trace'[p][k].ev \notin {"cmd", "read", "write", "install"}
                    /\ trace'[p][k].ev \in EnsureEvents => trace'[p][k].op = "dev-elasticsearch"
              /\ ArgKeys(CurEntry(p)) # {} =>
                    /\ starts' = starts /\ exists' = exists
                    /\ pc'[p] = "loop" /\ idx'[p] = idx[p] + 1
                    /\ \A k \in NewPos(p) :
                          trace'[p][k].ev \in {"checking", "warn_invalid", "satisfied"}]_vars

\* an elastic entry without arguments had the search store started and was
\* done, and an elastic entry with an argument was skipped
C30_Witness ==
    \E k, m \in Pos(1) :
        /\ trace[1][k].ev = "ready" /\ trace[1][k].op = "dev-elasticsearch"
        /\ trace[1][k + 1].ev = "satisfied"
        /\ ArgKeys(EntryOf(1, trace[1][k])) = {}
        /\ trace[1][m].ev = "warn_invalid" /\ trace[1][m].op = "Elasticsearch"
        /\ starts["dev-elasticsearch"] = 1

----------------------------------------------------------------------------
(* C23 *)

\* the start events dispatcher p logged for dependency d
StartsBy(p, d) == {k \in Pos(p) : trace[p][k].ev = "start" /\ trace[p][k].op = d}

\* C23: with two dispatchers nothing stands between the existence check and
\* the start action: a dispatcher that found the process absent can take the
\* start action whatever has happened since, and takes it even when the
\* process exists by then; every such start is counted for the dependency.
C23_StartNotSerialized ==
    /\ [](\A p \in Procs : pc[p] = "start" => ENABLED EnsureStart(p))
    /\ [](\A d \in Deps :
            starts[d] = Cardinality(StartsBy(1, d)) + Cardinality(StartsBy(2, d)))
    /\ [][\A p \in Procs :
             (pc[p] = "start" /\ pc'[p] # "start") =>
                 /\ pc'[p] = "wait"
                 /\ starts'[CurDep(p)] = starts[CurDep(p)] + 1
                 /\ exists'[CurDep(p)]]_vars

\* both dispatchers found the same dependency absent and both invoked its
\* start action
C23_Witness ==
    \E d \in Deps :
        /\ starts[d] = 2
        /\ \A p \in Procs :
              \E k \in Pos(p) :
                  /\ k < Len(trace[p])
                  /\ trace[p][k].ev = "absent" /\ trace[p][k].op = d
                  /\ trace[p][k + 1].ev = "start"

----------------------------------------------------------------------------
(* C24 *)

\* the databases of the entries of the mapping m
Indices(m) == {m[k].db : k \in DOMAIN m}

\* C24: with two dispatchers the entry a redis run writes gets as database
\* the number of entries of the mapping as the run read it, whatever was
\* written since; when nothing was written between the read and the write
\* that database is not one of an entry of the bundle.
C24_IndexFromStaleRead ==
    [][\A p \in Procs :
          (pc[p] = "write" /\ pc'[p] # "write") =>
              LET k == CurName(p) IN
              /\ k \in DOMAIN secrets'
              /\ secrets'[k].db = Cardinality(DOMAIN snap[p])
              /\ snap[p] = secrets =>
                    /\ k \notin DOMAIN secrets
                    /\ secrets'[k].db \notin Indices(secrets)]_vars

\* two runs for two keys each read the empty mapping before the other
\* wrote: both keys are in the bundle with database 0
C24_Witness ==
    /\ Cardinality(DOMAIN secrets) = 2
    /\ Indices(secrets) = {0}
    /\ \A p \in Procs : pc[p] = "finished"

----------------------------------------------------------------------------
(* C25 *)

\* C25: when entries of 'redis-urls' may be removed out of band, a run for a
\* key that is not in the mapping still writes the entry with the number of
\* entries as database and goes on normally, also when an entry of the
\* bundle has that database already.
C25_IndexIsCardinality ==
    [][\A p \in Procs :
          (pc[p] = "write" /\ pc'[p] # "write") =>
              LET k == CurName(p) IN
              /\ DOMAIN secrets' = DOMAIN secrets \cup {k}
              /\ secrets'[k].db = Cardinality(DOMAIN secrets)
              /\ \A j \in DOMAIN secrets \ {k} : secrets'[j] = secrets[j]
              /\ pc'[p] = "loop" /\ idx'[p] = idx[p] + 1]_vars

\* two keys were written with databases 0 and 1, the first was removed,
\* and a third key was written with database 1: the run has finished with
\* two keys of the bundle on one database
C25_Witness ==
    /\ pc[1] = "finished"
    /\ \E j, k \in DOMAIN secrets : j # k /\ secrets[j].db = 1 /\ secrets[k].db = 1
    /\ Cardinality(Writes(1)) = 3

----------------------------------------------------------------------------
(* The deploy command and the development requirements *)

\* the positions of the command's log where it did or logged a thing
LogAt(what) == { i \in 1..Len(devel.log) : devel.log[i] = what }
InLog(what) == LogAt(what) # {}

\* run_default called run_dev_requirements_deploy
Dispatched == InLog("dev_requirements")

\* C28: run_default of the deploy command dispatches the development
\* requirements only in development mode, with a non-empty DEV_REQUIREMENTS
\* and at least one definition directory, and the dispatcher never moves
\* unless they were dispatched; the secrets are installed and the
\* definitions applied only after dispatch_all has returned; and when
\* dispatch_all raised, the command raises and nothing of the Kubernetes
\* deploy step is executed.
C28_RequirementsBeforeDeploy ==
    /\ Dispatched =>
          /\ devel.development
          /\ dev_requirements # <<>>
          /\ (devel.kubernetes_dir \/ devel.overrides_dir)
    /\ (pc[1] # "idle" \/ trace[1] # <<>>) => Dispatched
    /\ (Dispatched /\ (InLog("install_secrets") \/ InLog("apply_all"))) =>
          /\ pc[1] = "finished"
          /\ \A i \in LogAt("install_secrets") \cup LogAt("apply_all") :
                \E j \in LogAt("satisfied") : j < i
    /\ pc[1] = "raised" =>
          /\ devel.at \in {"dev_requirements", "raised"}
          /\ ~InLog("install_secrets")
          /\ ~InLog("apply_all")

\* a deploy whose requirements were dispatched and satisfied before the
\* definitions were applied
C28_Witness ==
    /\ devel.at = "done"
    /\ Dispatched
    /\ InLog("apply_all")
    /\ trace[1] # <<>>
    /\ pc[1] = "finished"

----------------------------------------------------------------------------
(* The custom script and run_default *)

\* C29: after run of a devel command has ended, exactly one of the custom
\* script and run_default was executed: the script if and only if it
\* exists and --default was not given, run_default otherwise.
C29_ScriptOrDefault ==
    (devel.entry = "run" /\ devel.at # "run") =>
        /\ InLog("script") <=> (devel.script /\ ~devel.default)
        /\ InLog("run_default") <=> ~InLog("script")

====
